---------------------------- MODULE Spec2Model ----------------------------
(***************************************************************************)
(* FileSentinel (src/file_sentinel.py): the polling loop `monitor` and the *)
(* scan `get_new_files`, together with the environment they observe: the   *)
(* wall clock read by time.time(), the directory tree under root_dir and   *)
(* the st_ctime stamp the file system keeps for every entry.               *)
(*                                                                         *)
(* Time is counted in seconds.  The wall clock moves in steps of           *)
(* TickSeconds; it may also be set back (time.time() is not monotonic),    *)
(* which `skewed` remembers.  time.sleep measures elapsed time and is not  *)
(* affected by a clock that is set back, so the sleep is tracked by        *)
(* `slept`.  An entry's stamp is fixed when the entry is created; it is    *)
(* recorded for the entries the scan stats (those is_file accepts).        *)
(*                                                                         *)
(* Spec and LiveSpec start where main has called monitor.  ConfigSpec is   *)
(* the part of main before that: read_config and create_default_config    *)
(* over the configuration files, the working directory and the            *)
(* environment, up to the call of monitor.                                 *)
(***************************************************************************)
EXTENDS Integers, Sequences, FiniteSets, TLC

\* ---------------------------------------------------------------- bounds
TickSeconds == 30
MaxClock == 150
MaxInterval == 2
MaxLoads == 2

\* ------------------------------------------------------------- constants
\* time.sleep(time_interval * 60)
SecondsPerMinute == 60

\* ------------------------------------------------------------- the tree
Root == "."
Paths == {"a", "d", "d/b"}
Parent(p) == IF p = "d/b" THEN "d" ELSE Root

\* "file": regular file; "dir": directory; "special": fifo, socket, device;
\* "link": symbolic link whose target is a regular file (stat follows it).
Kinds == {"file", "dir", "special", "link"}
KindsAt(p) ==
    IF p = "a" THEN {"file", "link", "special"}
    ELSE IF p = "d" THEN {"dir"}
    ELSE {"file"}
NoEntry == [kind |-> "none", ctime |-> 0, old |-> FALSE]
Times == {t \in 0..MaxClock : t % TickSeconds = 0}
Entries == [kind : Kinds, ctime : Times, old : BOOLEAN]

VARIABLES
    now,              \* time.time()
    skewed,           \* the wall clock has been set back at least once
    fs,               \* the tree under root_dir: path -> entry or NoEntry
    time_interval,    \* monitor's parameter (config check_time_interval)
    pc,               \* monitor's position
    slept,            \* seconds elapsed in the current time.sleep
    last_check_time,  \* monitor's local: the cutoff
    new_files,        \* monitor's local: result of the last get_new_files
    log,              \* lines appended to the log file by the current iteration
    sent,             \* messages handed to the messenger by the current iteration
    reported,         \* the entries of fs that an earlier iteration has logged as new
    failure,          \* which call raised, once monitor has been left
    cwd,              \* Path.cwd()
    env,              \* os.environ: variable -> value or Unset
    disk,             \* the configuration files: <<directory, name>> -> content
    before,           \* disk as it was when read_config was last called
    history,          \* the calls of read_config made so far, with their outcomes
    mpc,              \* main's position
    config            \* main's local: the configuration read_config returned

mainVars == <<cwd, env, disk, before, history, mpc, config>>

vars == <<now, skewed, fs, time_interval, pc, slept, last_check_time,
          new_files, log, sent, reported, failure, mainVars>>

envVars == <<now, skewed, fs>>
monVars == <<time_interval, pc, slept, last_check_time, new_files, log, sent,
             reported, failure>>

\* ------------------------------------------------------------ get_new_files
\* root_path.rglob("*"): every entry whose ancestors up to root are directories.
RECURSIVE UnderRoot(_, _)
UnderRoot(tree, p) ==
    /\ tree[p] # NoEntry
    /\ IF Parent(p) = Root THEN TRUE
       ELSE tree[Parent(p)].kind = "dir" /\ UnderRoot(tree, Parent(p))

\* Path.is_file(): true of a regular file and of a symlink to one.
is_file(e) == e.kind \in {"file", "link"}

\* time.ctime(t): the stamp rendered for reading.
ctime(t) == [readable |-> t]

\* get_new_files comparing with >= instead of >.
get_new_files_AtOrAfter(tree, cutoff) ==
    LET found == {p \in Paths : /\ UnderRoot(tree, p)
                                /\ is_file(tree[p])
                                /\ tree[p].ctime >= cutoff}
    IN  [p \in found |-> ctime(tree[p].ctime)]

get_new_files(tree, cutoff) ==
    LET found == {p \in Paths : /\ UnderRoot(tree, p)
                                /\ is_file(tree[p])
                                /\ tree[p].ctime > cutoff}
    IN  [p \in found |-> ctime(tree[p].ctime)]

\* ------------------------------------------------- configuration files
Dirs == {"/home", "/srv"}
Names == {"config.json", "other.json"}
ConfigFiles == Dirs \X Names

\* A path_to_config: relative to the working directory (".") or absolute.
ConfigArgs == [dir : {".", "/srv"}, name : Names]
\* read_config's default argument, "config.json".
DefaultArg == [dir |-> ".", name |-> "config.json"]
\* open(path): a relative path is resolved against the working directory.
Resolve(p) == <<IF p.dir = "." THEN cwd ELSE p.dir, p.name>>

\* What a path holds: nothing, a JSON text, a text json.load rejects, or a
\* file that open refuses (PermissionError).
Absent == [kind |-> "absent", text |-> << >>]
Garbage == [kind |-> "garbage", text |-> << >>]
Locked == [kind |-> "locked", text |-> << >>]
JsonFile(text) == [kind |-> "json", text |-> text]

Unset == "<unset>"
EnvNames == {"LOGGER_EMAIL_RECEIVER", "LOGGER_EMAIL_SENDER", "LOGGER_EMAIL_PASSWORD"}
EnvValues == {Unset, "from-env"}
\* os.getenv(name, default)
getenv(name, default) == IF env[name] = Unset THEN default ELSE env[name]

\* The keys of the dict literal of create_default_config, in its order.
ConfigKeys == <<"directory_of_interest", "check_time_interval", "log_file_location",
                "email_receiver", "email_sender", "email_password">>
NumberKeys == {"check_time_interval"}

\* json.dump(config, f, indent=4): one member per key, in the dict's order,
\* each value written as a JSON number or a JSON string.
JsonDump(c) ==
    [i \in 1..Len(ConfigKeys) |->
        [key |-> ConfigKeys[i],
         value |-> IF ConfigKeys[i] \in NumberKeys
                   THEN [json |-> "number", literal |-> c[ConfigKeys[i]]]
                   ELSE [json |-> "string", literal |-> c[ConfigKeys[i]]]]]

\* json.load(f): the dict of the members of the text.
JsonLoad(text) ==
    [k \in {text[i].key : i \in DOMAIN text} |->
        LET i == CHOOSE i \in DOMAIN text :
                     /\ text[i].key = k
                     /\ \A j \in DOMAIN text : text[j].key = k => j <= i
        IN  text[i].value.literal]

\* A configuration somebody wrote by hand.
UserConfig ==
    [directory_of_interest |-> "/data",
     check_time_interval |-> 1,
     log_file_location |-> <<"/data", "sentinel.log">>,
     email_receiver |-> "admin@example.org",
     email_sender |-> "sentinel@example.org",
     email_password |-> "secret"]

\* create_default_config writing under another file name.
create_default_config_OtherName(d) ==
    LET config_path == <<cwd, "other.json">>
        c == [directory_of_interest |-> cwd,
              check_time_interval |-> 15,
              log_file_location |-> <<cwd, "monitor.txt">>,
              email_receiver |-> getenv("LOGGER_EMAIL_RECEIVER", "reciever@gmail.com"),
              email_sender |-> getenv("LOGGER_EMAIL_SENDER", "sender@gmail.com"),
              email_password |-> getenv("LOGGER_EMAIL_PASSWORD", "default_password")]
    IN  IF d[config_path] = Locked
        THEN [raised |-> TRUE, path |-> config_path, disk |-> d]
        ELSE [raised |-> FALSE, path |-> config_path,
              disk |-> [d EXCEPT ![config_path] = JsonFile(JsonDump(c))]]

\* create_default_config(): the defaults written to config.json in the working
\* directory (open("w") raises on a file it may not write); returns the path.
create_default_config(d) ==
    LET config_path == <<cwd, "config.json">>
        c == [directory_of_interest |-> cwd,
              check_time_interval |-> 15,
              log_file_location |-> <<cwd, "monitor.txt">>,
              email_receiver |-> getenv("LOGGER_EMAIL_RECEIVER", "reciever@gmail.com"),
              email_sender |-> getenv("LOGGER_EMAIL_SENDER", "sender@gmail.com"),
              email_password |-> getenv("LOGGER_EMAIL_PASSWORD", "default_password")]
    IN  IF d[config_path] = Locked
        THEN [raised |-> TRUE, path |-> config_path, disk |-> d]
        ELSE [raised |-> FALSE, path |-> config_path,
              disk |-> [d EXCEPT ![config_path] = JsonFile(JsonDump(c))]]

NoConfig == << >>
Raised(d) == [outcome |-> "raised", found |-> FALSE, config |-> NoConfig, disk |-> d]
Returned(d, c, found) == [outcome |-> "returned", found |-> found, config |-> c, disk |-> d]

\* read_config with `except Exception` in place of `except FileNotFoundError`.
read_config_CatchAll(d, p) ==
    IF d[Resolve(p)].kind = "json"
    THEN Returned(d, JsonLoad(d[Resolve(p)].text), TRUE)
    ELSE LET made == create_default_config(d)
         IN  IF made.raised THEN Raised(made.disk)
             ELSE Returned(made.disk, JsonLoad(made.disk[made.path].text), FALSE)

\* read_config(path_to_config): the file is opened and parsed; only
\* FileNotFoundError is handled, by writing the default and reading it back
\* from the path create_default_config returned.  `found` tells which path
\* was taken.
read_config(d, p) ==
    IF d[Resolve(p)].kind = "json"
    THEN Returned(d, JsonLoad(d[Resolve(p)].text), TRUE)
    ELSE IF d[Resolve(p)].kind = "absent"
    THEN LET made == create_default_config(d)
         IN  IF made.raised THEN Raised(made.disk)
             ELSE Returned(made.disk, JsonLoad(made.disk[made.path].text), FALSE)
    ELSE Raised(d)

\* ------------------------------------------------------------------ Init
\* monitor has been entered: last_check_time = time.time(), then time.sleep.
\* main has called monitor with the configuration it read from config.json.
MonitorCalled ==
    /\ cwd = "/home"
    /\ env = [n \in EnvNames |-> Unset]
    /\ config = [UserConfig EXCEPT !.check_time_interval = time_interval]
    /\ disk = [f \in ConfigFiles |->
                 IF f = <<cwd, "config.json">> THEN JsonFile(JsonDump(config)) ELSE Absent]
    /\ before = disk
    /\ history = << >>
    /\ mpc = "monitor"

InitTrees ==
    { [p \in Paths |-> NoEntry],
      [p \in Paths |-> IF p = "a" THEN [kind |-> "file", ctime |-> 0, old |-> TRUE]
                       ELSE NoEntry] }

Init ==
    /\ now = 0
    /\ skewed = FALSE
    /\ fs \in InitTrees
    /\ time_interval \in 1..MaxInterval
    /\ pc = "sleep"
    /\ slept = 0
    /\ last_check_time = now
    /\ new_files = << >>
    /\ log = << >>
    /\ sent = << >>
    /\ reported = {}
    /\ failure = "none"
    /\ MonitorCalled

\* ----------------------------------------------------------- environment
\* time.sleep(time_interval): minutes passed as seconds.
SleepSeconds_NoFactor == time_interval

SleepSeconds == time_interval * SecondsPerMinute

Min(a, b) == IF a < b THEN a ELSE b

Tick ==
    /\ now + TickSeconds <= MaxClock
    /\ now' = now + TickSeconds
    /\ slept' = IF pc = "sleep" THEN Min(slept + TickSeconds, SleepSeconds) ELSE slept
    /\ UNCHANGED <<mainVars, skewed, fs, time_interval, pc, last_check_time, new_files,
                   log, sent, reported, failure>>

ClockSetBack ==
    /\ now >= TickSeconds
    /\ now' = now - TickSeconds
    /\ skewed' = TRUE
    /\ UNCHANGED <<mainVars, fs, monVars>>

CreateEntry(p, k) ==
    /\ fs[p] = NoEntry
    /\ IF Parent(p) = Root THEN TRUE
       ELSE UnderRoot(fs, Parent(p)) /\ fs[Parent(p)].kind = "dir"
    /\ fs' = [fs EXCEPT ![p] = [kind |-> k,
                                ctime |-> IF is_file([kind |-> k]) THEN now ELSE 0,
                                old |-> FALSE]]
    /\ UNCHANGED <<mainVars, now, skewed, monVars>>

DeleteEntry(p) ==
    /\ fs[p] # NoEntry
    /\ \A q \in Paths : Parent(q) = p => fs[q] = NoEntry
    /\ fs' = [fs EXCEPT ![p] = NoEntry]
    /\ reported' = reported \ {p}
    /\ UNCHANGED <<mainVars, now, skewed, time_interval, pc, slept, last_check_time,
                   new_files, log, sent, failure>>

\* ---------------------------------------------------------------- monitor
\* time.sleep returning before the interval has elapsed.
Wake_Early ==
    /\ pc = "sleep"
    /\ pc' = "scan"
    /\ UNCHANGED <<mainVars, envVars, time_interval, slept, last_check_time, new_files,
                   log, sent, reported, failure>>

\* time.sleep(time_interval * 60) returns.
Wake ==
    /\ pc = "sleep"
    /\ slept >= SleepSeconds
    /\ pc' = "scan"
    /\ UNCHANGED <<mainVars, envVars, time_interval, slept, last_check_time, new_files,
                   log, sent, reported, failure>>

\* A scan that moves the cutoff to the time of the scan.
Scan_MovesCutoff ==
    /\ pc = "scan"
    /\ new_files' = get_new_files(fs, last_check_time)
    /\ last_check_time' = now
    /\ pc' = "decide"
    /\ UNCHANGED <<mainVars, envVars, time_interval, slept, log, sent, reported, failure>>

\* new_files = get_new_files(root_dir, last_check_time)
Scan ==
    /\ pc = "scan"
    /\ new_files' = get_new_files(fs, last_check_time)
    /\ pc' = "decide"
    /\ UNCHANGED <<mainVars, envVars, time_interval, slept, last_check_time, log, sent,
                   reported, failure>>

\* rglob, is_file or stat raises OSError; monitor has no handler.
ScanRaises ==
    /\ pc = "scan"
    /\ pc' = "raised"
    /\ failure' = "scan"
    /\ UNCHANGED <<mainVars, envVars, time_interval, slept, last_check_time, new_files,
                   log, sent, reported>>

NewFilesEntry(files) == [message |-> "new files check, following files were created", files |-> files]
NoNewFilesEntry == [message |-> "new files check, no new files were created", files |-> << >>]

\* len(new_files) > 0: logging.info(...)
LogNewFiles ==
    /\ pc = "decide"
    /\ Cardinality(DOMAIN new_files) > 0
    /\ log' = Append(log, NewFilesEntry(new_files))
    /\ reported' = reported \cup {p \in DOMAIN new_files :
                                   fs[p] # NoEntry /\ ctime(fs[p].ctime) = new_files[p]}
    /\ pc' = "assign"
    /\ UNCHANGED <<mainVars, envVars, time_interval, slept, last_check_time, new_files,
                   sent, failure>>

\* f"No new files were created in the last {time_interval} minutes"
NoNewFilesMessage == [text |-> "No new files were created in the last", minutes |-> time_interval]

\* The notifier called whatever the scan returned.
Notify_Always ==
    /\ pc = "decide"
    /\ sent' = Append(sent, [message |-> NoNewFilesMessage, attachment |-> log])
    /\ pc' = "lognone"
    /\ UNCHANGED <<mainVars, envVars, time_interval, slept, last_check_time, new_files,
                   log, reported, failure>>

\* The 'no new files' entry logged before the notifier is called.
Notify_AfterLogging ==
    /\ pc = "decide"
    /\ ~ (Cardinality(DOMAIN new_files) > 0)
    /\ log' = Append(log, NoNewFilesEntry)
    /\ sent' = Append(sent, [message |-> NoNewFilesMessage, attachment |-> log'])
    /\ pc' = "assign"
    /\ UNCHANGED <<mainVars, envVars, time_interval, slept, last_check_time, new_files,
                   reported, failure>>

\* else: messenger.send_log_file_with_message(message=...), which attaches the log file
Notify ==
    /\ pc = "decide"
    /\ ~ (Cardinality(DOMAIN new_files) > 0)
    /\ sent' = Append(sent, [message |-> NoNewFilesMessage, attachment |-> log])
    /\ pc' = "lognone"
    /\ UNCHANGED <<mainVars, envVars, time_interval, slept, last_check_time, new_files,
                   log, reported, failure>>

\* The notifier's exception caught and the iteration carried on.
NotifyRaises_Skipped ==
    /\ pc = "decide"
    /\ ~ (Cardinality(DOMAIN new_files) > 0)
    /\ pc' = "assign"
    /\ failure' = "notifier"
    /\ UNCHANGED <<mainVars, envVars, time_interval, slept, last_check_time, new_files,
                   log, sent, reported>>

\* open(log file) or the SMTP exchange raises; monitor has no handler.
NotifyRaises ==
    /\ pc = "decide"
    /\ ~ (Cardinality(DOMAIN new_files) > 0)
    /\ pc' = "raised"
    /\ failure' = "notifier"
    /\ UNCHANGED <<mainVars, envVars, time_interval, slept, last_check_time, new_files,
                   log, sent, reported>>

\* The assignment of the cutoff left out of the else branch.
LogNoNewFiles_ThenSleep ==
    /\ pc = "lognone"
    /\ pc' = "sleep"
    /\ slept' = 0
    /\ new_files' = << >>
    /\ log' = << >>
    /\ sent' = << >>
    /\ UNCHANGED <<mainVars, envVars, time_interval, last_check_time, reported, failure>>

\* The else branch writing no log entry.
LogNoNewFiles_Silent ==
    /\ pc = "lognone"
    /\ pc' = "assign"
    /\ UNCHANGED <<mainVars, envVars, time_interval, slept, last_check_time, new_files,
                   log, sent, reported, failure>>

\* logging.info("new files check, no new files were created")
LogNoNewFiles ==
    /\ pc = "lognone"
    /\ log' = Append(log, NoNewFilesEntry)
    /\ pc' = "assign"
    /\ UNCHANGED <<mainVars, envVars, time_interval, slept, last_check_time, new_files,
                   sent, reported, failure>>

\* The cutoff set to the time elapsed since the last check.
Assign_Elapsed ==
    /\ pc = "assign"
    /\ last_check_time' = now - last_check_time
    /\ pc' = "sleep"
    /\ slept' = 0
    /\ new_files' = << >>
    /\ log' = << >>
    /\ sent' = << >>
    /\ UNCHANGED <<mainVars, envVars, time_interval, reported, failure>>

\* The cutoff never reassigned.
Assign_KeepsCutoff ==
    /\ pc = "assign"
    /\ pc' = "sleep"
    /\ slept' = 0
    /\ new_files' = << >>
    /\ log' = << >>
    /\ sent' = << >>
    /\ UNCHANGED <<mainVars, envVars, time_interval, last_check_time, reported, failure>>

\* The loop left after one iteration.
Assign_ThenReturn ==
    /\ pc = "assign"
    /\ last_check_time' = now
    /\ pc' = "returned"
    /\ new_files' = << >>
    /\ log' = << >>
    /\ sent' = << >>
    /\ UNCHANGED <<mainVars, envVars, time_interval, slept, reported, failure>>

\* last_check_time = time.time(); back to the top of while True.  The
\* iteration is over: new_files is not read again before the next scan
\* overwrites it, and log and sent start afresh for the next iteration.
Assign ==
    /\ pc = "assign"
    /\ last_check_time' = now
    /\ pc' = "sleep"
    /\ slept' = 0
    /\ new_files' = << >>
    /\ log' = << >>
    /\ sent' = << >>
    /\ UNCHANGED <<mainVars, envVars, time_interval, reported, failure>>

Next ==
    \/ Tick
    \/ ClockSetBack
    \/ \E p \in Paths : \E k \in KindsAt(p) : CreateEntry(p, k)
    \/ \E p \in Paths : DeleteEntry(p)
    \/ Wake
    \/ Scan
    \/ ScanRaises
    \/ LogNewFiles
    \/ Notify
    \/ NotifyRaises
    \/ LogNoNewFiles
    \/ Assign

Spec == Init /\ [][Next]_vars

\* The same program where the clock reading stays at the horizon once it is
\* reached (later instants are not told apart) while elapsed time still passes.
TickLive ==
    /\ now' = IF now + TickSeconds <= MaxClock THEN now + TickSeconds ELSE now
    /\ slept' = IF pc = "sleep" THEN Min(slept + TickSeconds, SleepSeconds) ELSE slept
    /\ UNCHANGED <<mainVars, skewed, fs, time_interval, pc, last_check_time, new_files,
                   log, sent, reported, failure>>

\* The steps of monitor in which no call raises.
MonitorStep ==
    \/ Wake
    \/ Scan
    \/ LogNewFiles
    \/ Notify
    \/ LogNoNewFiles
    \/ Assign

NextLive ==
    \/ TickLive
    \/ ClockSetBack
    \/ \E p \in Paths : \E k \in KindsAt(p) : CreateEntry(p, k)
    \/ \E p \in Paths : DeleteEntry(p)
    \/ MonitorStep
    \/ ScanRaises
    \/ NotifyRaises

\* Time passes, and the interpreter runs monitor's next statement.
LiveSpec == Init /\ [][NextLive]_vars /\ WF_vars(TickLive) /\ WF_vars(MonitorStep)

\* ------------------------------------------------------------------ main
\* The process before main runs: any working directory, environment and
\* configuration files; monitor has not been called.
InitFiles ==
    {Absent, Garbage, Locked, JsonFile(JsonDump(UserConfig)), JsonFile(<< >>)}

ConfigInit ==
    /\ now = 0
    /\ skewed = FALSE
    /\ fs = [p \in Paths |-> NoEntry]
    /\ time_interval = 0
    /\ pc = "unstarted"
    /\ slept = 0
    /\ last_check_time = 0
    /\ new_files = << >>
    /\ log = << >>
    /\ sent = << >>
    /\ reported = {}
    /\ failure = "none"
    /\ cwd \in Dirs
    /\ env \in [EnvNames -> EnvValues]
    /\ disk \in [ConfigFiles -> InitFiles]
    /\ before = disk
    /\ history = << >>
    /\ mpc = "start"
    /\ config = NoConfig

Call(p, r) == [arg |-> p, outcome |-> r.outcome, found |-> r.found, config |-> r.config]

\* A caller loads the configuration at path p.
ReadConfigCall(p) ==
    /\ mpc = "start"
    /\ Len(history) < MaxLoads
    /\ LET r == read_config(disk, p)
       IN  /\ before' = disk
           /\ disk' = r.disk
           /\ history' = Append(history, Call(p, r))
    /\ UNCHANGED <<envVars, monVars, cwd, env, mpc, config>>

\* main: config = read_config()
MainReadConfig ==
    /\ mpc = "start"
    /\ LET r == read_config(disk, DefaultArg)
       IN  /\ before' = disk
           /\ disk' = r.disk
           /\ history' = Append(history, Call(DefaultArg, r))
           /\ config' = r.config
           /\ mpc' = IF r.outcome = "raised" THEN "raised" ELSE "loaded"
    /\ UNCHANGED <<envVars, monVars, cwd, env>>

\* main: logging.basicConfig(filename=config["log_file_location"], ...) and
\* EmailMessenger(...); a missing key raises KeyError.
MainSetUp ==
    /\ mpc = "loaded"
    /\ mpc' = IF {"log_file_location", "email_receiver", "email_sender",
                  "email_password"} \subseteq DOMAIN config
              THEN "configured" ELSE "raised"
    /\ UNCHANGED <<envVars, monVars, cwd, env, disk, before, history, config>>

\* main: monitor(root_dir=config["directory_of_interest"],
\* time_interval=config["check_time_interval"], messenger=emailer), up to the
\* first time.sleep.
MainMonitor ==
    /\ mpc = "configured"
    /\ IF {"directory_of_interest", "check_time_interval"} \subseteq DOMAIN config
       THEN /\ mpc' = "monitor"
            /\ time_interval' = config["check_time_interval"]
            /\ last_check_time' = now
            /\ pc' = "sleep"
       ELSE /\ mpc' = "raised"
            /\ UNCHANGED <<time_interval, last_check_time, pc>>
    /\ UNCHANGED <<envVars, slept, new_files, log, sent, reported, failure,
                   cwd, env, disk, before, history, config>>

ConfigNext ==
    \/ \E p \in ConfigArgs : ReadConfigCall(p)
    \/ MainReadConfig
    \/ MainSetUp
    \/ MainMonitor

ConfigSpec == ConfigInit /\ [][ConfigNext]_vars

TypeOK ==
    /\ now \in Times
    /\ skewed \in BOOLEAN
    /\ \A p \in Paths : fs[p] = NoEntry \/ fs[p] \in Entries
    /\ pc \in {"unstarted", "sleep", "scan", "decide", "lognone", "assign", "raised"}
    /\ mpc \in {"start", "loaded", "configured", "monitor", "raised"}
    /\ cwd \in Dirs
    /\ \A f \in ConfigFiles : disk[f].kind \in {"absent", "garbage", "locked", "json"}
    /\ Len(history) <= MaxLoads + 1
    /\ last_check_time \in Times
    /\ reported \subseteq {p \in Paths : fs[p] # NoEntry}

\* ================================================================ claims

\* C1: for every tree and cutoff the key set of get_new_files is exactly the
\* set of regular files found recursively under the root whose stamp is
\* strictly greater than the cutoff.
C1_KeysAreTheNewRegularFiles ==
    DOMAIN get_new_files(fs, last_check_time) =
        {p \in Paths : /\ UnderRoot(fs, p)
                       /\ fs[p].kind = "file"
                       /\ fs[p].ctime > last_check_time}

\* C2: when an iteration has finished its branch, the notifier has been called
\* exactly once if the scan result is empty and not at all otherwise, and the
\* message names time_interval.
C2_NotifierIffEmpty ==
    /\ pc = "assign" => Len(sent) = (IF DOMAIN new_files = {} THEN 1 ELSE 0)
    /\ Len(sent) <= 1
    /\ \A i \in DOMAIN sent : sent[i].message.minutes = time_interval

C2_Witness ==
    /\ pc = "assign"
    /\ Len(sent) = 1
    /\ sent[1].message.minutes = 2

\* C3: at the start of every scan, every regular file under the root that was
\* created after loop start, still exists and is stamped at or below the
\* cutoff has been logged as new by an earlier iteration.
C3_NoFileSkipped ==
    pc = "scan" =>
        \A p \in Paths :
            (/\ UnderRoot(fs, p)
             /\ fs[p].kind = "file"
             /\ ~ fs[p].old
             /\ fs[p].ctime <= last_check_time) => p \in reported

\* C4: every file logged as new by an iteration is stamped strictly after the
\* cutoff that iteration started with.
C4_LoggedFilesAreAfterCutoff ==
    \A i \in DOMAIN log :
        \A p \in DOMAIN log[i].files : log[i].files[p].readable > last_check_time

C4_Witness ==
    /\ pc = "assign"
    /\ Len(log) = 1
    /\ DOMAIN log[1].files # {}
    /\ last_check_time > 0

\* C5 as stated: no step lowers last_check_time.
C5_CutoffNeverDecreases ==
    [][last_check_time' >= last_check_time]_vars

\* C5 (amended): as long as the wall clock has not been set back, no step
\* lowers last_check_time.
C5_CutoffNeverDecreasesUnlessClockSetBack ==
    [][~ skewed' => last_check_time' >= last_check_time]_vars

C5_Witness ==
    /\ ~ skewed
    /\ pc = "sleep"
    /\ last_check_time > 0
    /\ reported # {}

C7_CutoffReassignedEveryIteration ==
    /\ [][(pc' = "sleep" /\ pc # "sleep") => (pc = "assign" /\ last_check_time' = now)]_vars
    /\ [][(pc \in {"decide", "lognone"} /\ pc' # pc) => pc' \in {"lognone", "assign", "raised"}]_vars

C7_Witness ==
    /\ pc = "sleep"
    /\ slept = 0
    /\ last_check_time = now
    /\ now > 0
    /\ reported = {}

\* C8: monitor starts sleeping with the cutoff at the start time; a scan
\* starts only out of a sleep that has lasted time_interval * 60 seconds, each
\* sleep starting from zero; while sleeping nothing is scanned, logged or sent.
C8_ScanOnlyAfterFullSleep ==
    /\ (pc = "sleep" /\ last_check_time = now /\ slept = 0)
    /\ [](pc = "scan" => slept >= time_interval * 60)
    /\ [][(pc' = "scan" /\ pc # "scan") => (pc = "sleep" /\ slept >= time_interval * 60)]_vars
    /\ [][(pc' = "sleep" /\ pc # "sleep") => slept' = 0]_vars
    /\ [][pc = "sleep" => (/\ pc' \in {"sleep", "scan"}
                           /\ new_files' = new_files
                           /\ log' = log
                           /\ sent' = sent
                           /\ last_check_time' = last_check_time)]_vars

C8_Witness ==
    /\ pc = "scan"
    /\ time_interval = 2
    /\ last_check_time > 0

\* C9: unless a call has raised, monitor always scans again.
C9_ScansForever ==
    []<>(pc = "scan" \/ failure # "none")

C9_Witness ==
    /\ pc = "scan"
    /\ failure = "none"
    /\ last_check_time > 0
    /\ reported # {}

C11_DefaultConfigRoundTrip ==
    \A i \in DOMAIN history :
        (/\ history[i].arg = DefaultArg
         /\ ~ history[i].found
         /\ history[i].outcome = "returned") =>
            LET c == history[i].config
            IN  /\ DOMAIN c = {ConfigKeys[k] : k \in DOMAIN ConfigKeys}
                /\ c["directory_of_interest"] = cwd
                /\ c["check_time_interval"] = 15
                /\ c["log_file_location"] = <<cwd, "monitor.txt">>
                /\ c["email_receiver"] = (IF env["LOGGER_EMAIL_RECEIVER"] = Unset
                                          THEN "reciever@gmail.com"
                                          ELSE env["LOGGER_EMAIL_RECEIVER"])
                /\ c["email_sender"] = (IF env["LOGGER_EMAIL_SENDER"] = Unset
                                        THEN "sender@gmail.com"
                                        ELSE env["LOGGER_EMAIL_SENDER"])
                /\ c["email_password"] = (IF env["LOGGER_EMAIL_PASSWORD"] = Unset
                                          THEN "default_password"
                                          ELSE env["LOGGER_EMAIL_PASSWORD"])
                /\ i = Len(history) =>
                       /\ disk[<<cwd, "config.json">>].kind = "json"
                       /\ JsonLoad(disk[<<cwd, "config.json">>].text) = c
                /\ \A j \in DOMAIN history :
                       (j > i /\ history[j].arg = DefaultArg) =>
                           /\ history[j].outcome = "returned"
                           /\ history[j].found
                           /\ history[j].config = c

C11_Witness ==
    /\ Len(history) = 2
    /\ history[1].arg = DefaultArg
    /\ history[2].arg = DefaultArg
    /\ ~ history[1].found
    /\ history[1].outcome = "returned"
    /\ history[2].found
    /\ env["LOGGER_EMAIL_RECEIVER"] # Unset
    /\ env["LOGGER_EMAIL_SENDER"] = Unset

\* C12: a configuration file that exists but cannot be read or parsed makes
\* read_config raise with the files left as they were; main ends there and
\* monitor is never called.
C12_MalformedConfigIsFatal ==
    /\ [](history # << >> =>
            LET last == history[Len(history)]
            IN  before[Resolve(last.arg)].kind \in {"garbage", "locked"} =>
                    (last.outcome = "raised" /\ disk = before))
    /\ [](mpc = "raised" => pc = "unstarted")
    /\ [][(/\ mpc = "start"
           /\ mpc' # "start"
           /\ disk[<<cwd, "config.json">>].kind \in {"garbage", "locked"}) =>
              (mpc' = "raised" /\ disk' = disk)]_vars
    /\ [][mpc = "raised" => UNCHANGED <<mpc, pc, disk, config, history>>]_vars

C12_Witness ==
    /\ mpc = "raised"
    /\ history # << >>
    /\ history[Len(history)].outcome = "raised"
    /\ before[<<cwd, "config.json">>] = Garbage

\* C13: a scan changes neither the tree nor the cutoff, so a second call on
\* the state it leaves returns what the first returned.
C13_ScanIsIdempotent ==
    [][(pc = "scan" /\ pc' = "decide") =>
          (/\ fs' = fs
           /\ last_check_time' = last_check_time
           /\ get_new_files(fs', last_check_time') = new_files')]_vars

C13_Witness ==
    /\ pc = "decide"
    /\ Cardinality(DOMAIN new_files) = 2
    /\ get_new_files(fs, last_check_time) = new_files

C15_NoNewFilesMessageIsTrue ==
    /\ [][(pc = "scan" /\ pc' = "decide" /\ ~ skewed /\ DOMAIN new_files' = {}) =>
              \A p \in Paths :
                  (UnderRoot(fs, p) /\ fs[p].kind = "file") =>
                      ~ (fs[p].ctime > now - time_interval * 60)]_vars
    /\ [][sent' # sent /\ sent' # << >> => (pc = "decide" /\ DOMAIN new_files = {})]_vars

C15_Witness ==
    /\ pc = "lognone"
    /\ ~ skewed
    /\ Len(sent) = 1
    /\ \E p \in Paths : UnderRoot(fs, p) /\ fs[p].kind = "file" /\ ~ fs[p].old

\* C16: the notifier is called before the iteration's log entry is written
\* and before the cutoff is reassigned: the attached log holds no entry of
\* this iteration, and when the notifier raises no entry is written and the
\* cutoff stays as it was.
C16_NotifierBeforeLogAndCutoff ==
    /\ [](\A i \in DOMAIN sent : sent[i].attachment = << >>)
    /\ [][sent' # sent /\ sent' # << >> =>
              (log' = log /\ last_check_time' = last_check_time)]_vars
    /\ [](failure = "notifier" => log = << >>)
    /\ [][(failure' = "notifier" \/ failure = "notifier") =>
              (log' = log /\ last_check_time' = last_check_time)]_vars

C16_Witness ==
    /\ pc = "assign"
    /\ Len(sent) = 1
    /\ Len(log) = 1
    /\ sent[1].attachment = << >>
    /\ last_check_time > 0

\* C17: after read_config(p) has found p absent and returned, p holds the
\* returned values, no other configuration file has changed, and the next
\* read_config(p) reads the file.
C17_DefaultWrittenAtArgOnly ==
    \A i \in DOMAIN history :
        (~ history[i].found /\ history[i].outcome = "returned") =>
            /\ i = Len(history) =>
                   /\ disk[Resolve(history[i].arg)].kind = "json"
                   /\ JsonLoad(disk[Resolve(history[i].arg)].text) = history[i].config
                   /\ \A f \in ConfigFiles \ {Resolve(history[i].arg)} : disk[f] = before[f]
            /\ (i + 1 \in DOMAIN history /\ history[i + 1].arg = history[i].arg) =>
                   history[i + 1].found
=============================================================================
